---- MODULE Spec2Model ----
(***************************************************************************)
(* A model of the limit order book of src/orderbook/order_book.cpp:        *)
(* OrderBookImpl with its registry (data.orders), the two price ladders    *)
(* (data.bids, data.asks), the two order-count maps and the cached         *)
(* maxima, and the three mutating operations add_order, cancel_order and   *)
(* amend_order together with match_orders and update_max_quantities.       *)
(*                                                                         *)
(* Prices are doubles in the source; the model draws them from a small     *)
(* range of integers, on which ==, <=, >= and the map orderings agree with *)
(* the source's.  uint64_t values are represented by the integer that is   *)
(* congruent to them modulo 2^64 and smallest in magnitude, so that +, -   *)
(* ++ and -- are plain integer arithmetic and 2^64 - 1 is written -1; the  *)
(* unsigned comparisons of the source are ULe / ULt below.                 *)
(* Trade.timestamp_ns comes from the wall clock and is left out.           *)
(***************************************************************************)
EXTENDS Integers, Sequences, FiniteSets

\* ------------------------------------------------------------------ bounds
MaxId == 3        \* order ids are 1..MaxId
MaxPrice == 1     \* prices are 0..MaxPrice
MaxQty == 2       \* submitted and amended quantities are 0..MaxQty
MaxOps == 4       \* number of public mutating calls in one run

Ids == 1..MaxId
Prices == 0..MaxPrice
Qtys == 0..MaxQty
OrderTypes == {"LIMIT", "MARKET"}

\* Orders a caller can submit (struct Order of order_book.h as add_order reads it).
Order == [order_id : Ids, is_buy : BOOLEAN, order_type : OrderTypes,
          price : Prices, quantity : Qtys]

VARIABLES
    orders,             \* data.orders: id -> Order, for the ids in the registry
    bids,               \* data.bids: price -> aggregate quantity
    asks,               \* data.asks: price -> aggregate quantity
    bid_order_counts,   \* data.bid_order_counts: price -> number of orders
    ask_order_counts,   \* data.ask_order_counts: price -> number of orders
    max_bid_quantity,   \* cached maximum of the bid aggregates
    max_ask_quantity,   \* cached maximum of the ask aggregates
    call,               \* the latest public call and its arguments
    trades,             \* the vector<Trade> the latest add_order returned
    result,             \* the bool the latest cancel_order / amend_order returned
    pre,                \* the book as it was before the latest call
    added,              \* ids add_order was called with before the latest call and
                        \* after the latest cancel_order before it
    nOps                \* number of public calls made so far

vars == <<orders, bids, asks, bid_order_counts, ask_order_counts,
          max_bid_quantity, max_ask_quantity, call, trades, result, pre, added, nOps>>

\* ------------------------------------------------------- uint64_t and maps
\* a <= b on uint64_t, for representatives of small magnitude.
ULe(a, b) == IF (a < 0) = (b < 0) THEN a <= b ELSE b < 0

\* a < b on uint64_t.
ULt(a, b) == a # b /\ ULe(a, b)

\* std::min on two uint64_t.
UMin(a, b) == IF ULt(b, a) THEN b ELSE a

\* m[k] of a std::map as operator[] reads it: a missing key is value-initialised.
Get(m, k) == IF k \in DOMAIN m THEN m[k] ELSE 0

\* m[k] = v of a std::map.
Put(m, k, v) == [x \in (DOMAIN m) \cup {k} |-> IF x = k THEN v ELSE m[x]]

\* m.erase(k) of a std::map.
Erase(m, k) == [x \in (DOMAIN m) \ {k} |-> m[x]]

EmptyMap == [x \in {} |-> 0]

SetMin(S) == CHOOSE x \in S : \A y \in S : x <= y
SetMax(S) == CHOOSE x \in S : \A y \in S : x >= y

\* data.bids.begin()->first: bids are ordered by std::greater.
BestBidKey(b) == SetMax(DOMAIN b)

\* BestAskKey with the bug of taking the last key of the map for its first.
BestAskKey_Worst(a) == SetMax(DOMAIN a)

\* data.asks.begin()->first.
BestAskKey(a) == SetMin(DOMAIN a)

\* One loop of update_max_quantities: the unsigned maximum of the aggregates, from 0.
MaxQuantity(m) ==
    IF DOMAIN m = {} THEN 0
    ELSE LET v == CHOOSE v \in {m[p] : p \in DOMAIN m} :
                     \A q \in DOMAIN m : ULe(m[q], v)
         IN IF ULt(0, v) THEN v ELSE 0

\* update_max_quantities on a book record.
update_max_quantities(s) ==
    [s EXCEPT !.max_bid_quantity = MaxQuantity(s.bids),
              !.max_ask_quantity = MaxQuantity(s.asks)]

\* The book as a record, the form the operations below work on.
Book == [orders |-> orders, bids |-> bids, asks |-> asks,
         bid_order_counts |-> bid_order_counts, ask_order_counts |-> ask_order_counts,
         max_bid_quantity |-> max_bid_quantity, max_ask_quantity |-> max_ask_quantity]

\* The ladders and count maps of a book record.
Ladders(s) == [bids |-> s.bids, asks |-> s.asks,
               bid_order_counts |-> s.bid_order_counts,
               ask_order_counts |-> s.ask_order_counts]

\* ------------------------------------------------------------ match_orders
\* TradePrice with the bug of trading at the incoming order's own price.
TradePrice_Aggressor(incoming_order, match_price) == incoming_order.price

\* Trade::price as match_orders sets it (trade.price = match_price).
TradePrice(incoming_order, match_price) == match_price

\* TradeQuantity with the bug of always taking the whole resting order.
TradeQuantity_Resting(incoming_quantity, resting_quantity) == resting_quantity

\* trade_quantity = std::min(incoming_order.quantity, order_pair.second.quantity).
TradeQuantity(incoming_quantity, resting_quantity) ==
    UMin(incoming_quantity, resting_quantity)

\* The Trade one match emits: the ids are assigned by the incoming order's side.
MakeTrade(incoming_order, id, match_price, trade_quantity) ==
    IF incoming_order.is_buy
    THEN [buy_order_id |-> incoming_order.order_id, sell_order_id |-> id,
          price |-> TradePrice(incoming_order, match_price), quantity |-> trade_quantity]
    ELSE [buy_order_id |-> id, sell_order_id |-> incoming_order.order_id,
          price |-> TradePrice(incoming_order, match_price), quantity |-> trade_quantity]

\* Whether the scan of match_orders trades with registry order o.
Matches(incoming_order, o, match_price, quantity) ==
    /\ o.is_buy # incoming_order.is_buy
    /\ o.order_type = "LIMIT"
    /\ o.price = match_price
    /\ ULt(0, quantity)

\* LevelFill with the bug of erasing a level of aggregate 0 without its count.
LevelFill_KeepsCount(agg, cnt, match_price, trade_quantity) ==
    LET left == Get(agg, match_price) - trade_quantity
    IN IF left = 0
       THEN [agg |-> Erase(agg, match_price), cnt |-> cnt]
       ELSE [agg |-> Put(agg, match_price, left), cnt |-> cnt]

\* LevelFill with the bug of a missing erase: a level stays in the ladder when
\* its aggregate reaches 0.
LevelFill_NoErase(agg, cnt, match_price, trade_quantity) ==
    [agg |-> Put(agg, match_price, Get(agg, match_price) - trade_quantity), cnt |-> cnt]

\* LevelFill with the bug of touching the ladder only when a fill takes the
\* whole level.
LevelFill_OnlyWholeLevel(agg, cnt, match_price, trade_quantity) ==
    IF Get(agg, match_price) = trade_quantity
    THEN [agg |-> Erase(agg, match_price), cnt |-> Erase(cnt, match_price)]
    ELSE [agg |-> agg, cnt |-> cnt]

\* data.asks[match_price] -= trade_quantity, and the erase of the level and of its
\* count when the aggregate is then 0 (the same on data.bids for an incoming sell).
\* The result is the pair of the ladder and its count map.
LevelFill(agg, cnt, match_price, trade_quantity) ==
    LET left == Get(agg, match_price) - trade_quantity
    IN IF left = 0
       THEN [agg |-> Erase(agg, match_price), cnt |-> Erase(cnt, match_price)]
       ELSE [agg |-> Put(agg, match_price, left), cnt |-> cnt]

\* The body of the for loop of match_orders for one order_pair.  s is the book
\* record extended with quantity (incoming_order.quantity), trades,
\* orders_to_remove and brk (the loop was left by break).
MatchOne(s, incoming_order, id, match_price) ==
    LET o == s.orders[id]
    IN IF ~Matches(incoming_order, o, match_price, s.quantity) THEN s
       ELSE
        LET trade_quantity == TradeQuantity(s.quantity, o.quantity)
            trade == MakeTrade(incoming_order, id, match_price, trade_quantity)
            lvl == IF incoming_order.is_buy
                   THEN LevelFill(s.asks, s.ask_order_counts, match_price, trade_quantity)
                   ELSE LevelFill(s.bids, s.bid_order_counts, match_price, trade_quantity)
            left == o.quantity - trade_quantity
        IN [s EXCEPT
              !.trades = Append(@, trade),
              !.quantity = @ - trade_quantity,
              !.orders = [@ EXCEPT ![id].quantity = left],
              !.asks = IF incoming_order.is_buy THEN lvl.agg ELSE @,
              !.ask_order_counts = IF incoming_order.is_buy THEN lvl.cnt ELSE @,
              !.bids = IF incoming_order.is_buy THEN @ ELSE lvl.agg,
              !.bid_order_counts = IF incoming_order.is_buy THEN @ ELSE lvl.cnt,
              !.orders_to_remove = IF left = 0 THEN Append(@, id) ELSE @,
              !.brk = (s.quantity - trade_quantity = 0)]

\* The for loop over data.orders, visited in the order scan.
RECURSIVE Scan(_, _, _, _)
Scan(s, incoming_order, match_price, scan) ==
    IF scan = <<>> \/ s.brk THEN s
    ELSE Scan(MatchOne(s, incoming_order, Head(scan), match_price),
              incoming_order, match_price, Tail(scan))

\* The loop over orders_to_remove: data.orders.erase(order_id).
RemoveOrders(os, ids) ==
    [x \in (DOMAIN os) \ {ids[i] : i \in 1..Len(ids)} |-> os[x]]

\* match_orders(incoming_order, match_price, trades).  s is the book record
\* extended with quantity and trades; scan is the iteration order of data.orders.
match_orders(s, incoming_order, match_price, scan) ==
    LET s0 == [orders |-> s.orders, bids |-> s.bids, asks |-> s.asks,
               bid_order_counts |-> s.bid_order_counts,
               ask_order_counts |-> s.ask_order_counts,
               max_bid_quantity |-> s.max_bid_quantity,
               max_ask_quantity |-> s.max_ask_quantity,
               quantity |-> s.quantity, trades |-> s.trades,
               orders_to_remove |-> <<>>, brk |-> FALSE]
        r == Scan(s0, incoming_order, match_price, scan)
    IN update_max_quantities(
         [orders |-> RemoveOrders(r.orders, r.orders_to_remove),
          bids |-> r.bids, asks |-> r.asks,
          bid_order_counts |-> r.bid_order_counts,
          ask_order_counts |-> r.ask_order_counts,
          max_bid_quantity |-> r.max_bid_quantity,
          max_ask_quantity |-> r.max_ask_quantity,
          quantity |-> r.quantity, trades |-> r.trades, hung |-> s.hung,
          stalled |-> s.stalled])

\* --------------------------------------------------------------- add_order
\* IsDuplicate with the bug of a missing guard.
IsDuplicate_Never(os, order) == FALSE

\* IsDuplicate with the bug of taking for a duplicate only an order equal to
\* the one that rests under its id.
IsDuplicate_SameTerms(os, order) ==
    order.order_id \in DOMAIN os /\ os[order.order_id] = order

\* The guard of add_order: data.orders.find(order.order_id) != data.orders.end().
IsDuplicate(os, order) == order.order_id \in DOMAIN os

\* Crossable with the bug of < for <= and > for >=: a LIMIT order does not
\* match at its own price.
Crossable_Strict(order, best) ==
    \/ order.order_type = "MARKET"
    \/ IF order.is_buy THEN best < order.price ELSE best > order.price

\* Crossable with the bug of a LIMIT order matched without its price test.
Crossable_Always(order, best) == TRUE

\* Crossable with the bug of holding a MARKET order to its price field.
Crossable_PriceOnly(order, best) ==
    IF order.is_buy THEN best <= order.price ELSE best >= order.price

\* The test inside the LIMIT loops: best_ask->first <= price for a buy,
\* best_bid->first >= price for a sell; a MARKET order has no such test.
Crossable(order, best) ==
    \/ order.order_type = "MARKET"
    \/ IF order.is_buy THEN best <= order.price ELSE best >= order.price

\* What one call of match_orders inside the while loop did towards the loop's
\* end, from s to r: new_order.quantity is smaller, or the level best is gone
\* from the opposite ladder.
Progress(s, r, order, best) ==
    \/ ULt(r.quantity, s.quantity)
    \/ best \notin DOMAIN (IF order.is_buy THEN r.asks ELSE r.bids)

\* The while loop of add_order (one of the four, by type and side).  A call of
\* match_orders that changes nothing is repeated for ever: hung records that
\* the loop never ends.  stalled records that some call made no Progress.
RECURSIVE MatchLoop(_, _, _)
MatchLoop(s, order, scan) ==
    LET opp == IF order.is_buy THEN s.asks ELSE s.bids
    IN IF ~(ULt(0, s.quantity) /\ DOMAIN opp # {}) THEN s
       ELSE
        LET best == IF order.is_buy THEN BestAskKey(s.asks) ELSE BestBidKey(s.bids)
        IN IF ~Crossable(order, best) THEN s
           ELSE
            LET live == SelectSeq(scan, LAMBDA i : i \in DOMAIN s.orders)
                r == match_orders(s, order, best, live)
            IN IF r = s THEN [s EXCEPT !.hung = TRUE, !.stalled = TRUE]
               ELSE MatchLoop([r EXCEPT !.stalled = @ \/ ~Progress(s, r, order, best)],
                              order, scan)

\* The insertion of the remainder of a LIMIT order: data.orders[id] = new_order,
\* the ladder's aggregate += quantity, its count ++, update_max_quantities.
Rest(s, order) ==
    LET new_order == [order EXCEPT !.quantity = s.quantity]
        os == Put(s.orders, order.order_id, new_order)
    IN update_max_quantities(
         IF order.is_buy
         THEN [s EXCEPT !.orders = os,
                        !.bids = Put(@, order.price, Get(@, order.price) + s.quantity),
                        !.bid_order_counts = Put(@, order.price, Get(@, order.price) + 1)]
         ELSE [s EXCEPT !.orders = os,
                        !.asks = Put(@, order.price, Get(@, order.price) + s.quantity),
                        !.ask_order_counts = Put(@, order.price, Get(@, order.price) + 1)])

\* add_order(order) on the book record b with data.orders iterated in the order
\* scan: the book record after the call, with trades (the vector returned),
\* quantity (what is left of new_order) and hung.
add_order(b, order, scan) ==
    LET s0 == [orders |-> b.orders, bids |-> b.bids, asks |-> b.asks,
               bid_order_counts |-> b.bid_order_counts,
               ask_order_counts |-> b.ask_order_counts,
               max_bid_quantity |-> b.max_bid_quantity,
               max_ask_quantity |-> b.max_ask_quantity,
               quantity |-> order.quantity, trades |-> <<>>, hung |-> FALSE,
               stalled |-> FALSE]
    IN IF IsDuplicate(b.orders, order) THEN s0
       ELSE LET s1 == MatchLoop(s0, order, scan)
            IN IF order.order_type = "LIMIT" /\ ~s1.hung /\ ULt(0, s1.quantity)
               THEN Rest(s1, order)
               ELSE s1

\* ------------------------------------------------- cancel_order, amend_order
\* Decrease with the bug of < for <=: a level is erased only when its aggregate
\* is below the order's quantity.
Decrease_Strict(agg, cnt, price, quantity) ==
    IF price \notin DOMAIN agg THEN [agg |-> agg, cnt |-> cnt]
    ELSE IF ULt(agg[price], quantity)
         THEN [agg |-> Erase(agg, price), cnt |-> Erase(cnt, price)]
         ELSE [agg |-> Put(agg, price, agg[price] - quantity),
               cnt |-> Put(cnt, price, Get(cnt, price) - 1)]

\* The ladder half of cancel_order and of amend_order for one side: the level
\* is erased with its count when its aggregate is <= the order's quantity, and
\* otherwise the aggregate is reduced and the count decremented; a missing
\* level is left alone.  The result is the pair of the ladder and its count map.
Decrease(agg, cnt, price, quantity) ==
    IF price \notin DOMAIN agg THEN [agg |-> agg, cnt |-> cnt]
    ELSE IF ULe(agg[price], quantity)
         THEN [agg |-> Erase(agg, price), cnt |-> Erase(cnt, price)]
         ELSE [agg |-> Put(agg, price, agg[price] - quantity),
               cnt |-> Put(cnt, price, Get(cnt, price) - 1)]

\* Decrease on the ladder of the order's side.
Release(b, o) ==
    LET d == IF o.is_buy
             THEN Decrease(b.bids, b.bid_order_counts, o.price, o.quantity)
             ELSE Decrease(b.asks, b.ask_order_counts, o.price, o.quantity)
    IN IF o.is_buy
       THEN [b EXCEPT !.bids = d.agg, !.bid_order_counts = d.cnt]
       ELSE [b EXCEPT !.asks = d.agg, !.ask_order_counts = d.cnt]

\* A book record with the bool a call returns.
WithOk(b, ok) ==
    [orders |-> b.orders, bids |-> b.bids, asks |-> b.asks,
     bid_order_counts |-> b.bid_order_counts,
     ask_order_counts |-> b.ask_order_counts,
     max_bid_quantity |-> b.max_bid_quantity,
     max_ask_quantity |-> b.max_ask_quantity, ok |-> ok]

\* CancelKnown with the bug of leaving the order in the registry.
CancelKnown_KeepsOrder(b, order_id) ==
    LET o == b.orders[order_id]
    IN IF o.order_type = "LIMIT"
       THEN update_max_quantities(Release(WithOk(b, TRUE), o))
       ELSE WithOk(b, TRUE)

\* cancel_order past its guard, for an id in the registry.
CancelKnown(b, order_id) ==
    LET o == b.orders[order_id]
        s1 == IF o.order_type = "LIMIT"
              THEN update_max_quantities(Release(WithOk(b, TRUE), o))
              ELSE WithOk(b, TRUE)
    IN [s1 EXCEPT !.orders = Erase(@, order_id)]

\* cancel_order with the bug of reporting success for an id it does not know.
cancel_order_Unchecked(b, order_id) ==
    IF order_id \notin DOMAIN b.orders THEN WithOk(b, TRUE)
    ELSE CancelKnown(b, order_id)

\* cancel_order(order_id) on the book record b: the book record after the call,
\* with ok (the bool returned).
cancel_order(b, order_id) ==
    IF order_id \notin DOMAIN b.orders THEN WithOk(b, FALSE)
    ELSE CancelKnown(b, order_id)

\* The second half of amend_order: the ladder's aggregate at new_price +=
\* new_quantity and its count ++.
Increase(agg, cnt, price, quantity) ==
    [agg |-> Put(agg, price, Get(agg, price) + quantity),
     cnt |-> Put(cnt, price, Get(cnt, price) + 1)]

\* amend_order past its guard, for an id in the registry.
AmendKnown(b, order_id, new_price, new_quantity) ==
    LET o == b.orders[order_id]
    IN IF o.order_type # "LIMIT" THEN WithOk(b, TRUE)
       ELSE
        LET s1 == Release(WithOk(b, TRUE), o)
            i == IF o.is_buy
                 THEN Increase(s1.bids, s1.bid_order_counts, new_price, new_quantity)
                 ELSE Increase(s1.asks, s1.ask_order_counts, new_price, new_quantity)
            s2 == [s1 EXCEPT
                     !.orders = [@ EXCEPT ![order_id].price = new_price,
                                          ![order_id].quantity = new_quantity],
                     !.bids = IF o.is_buy THEN i.agg ELSE @,
                     !.bid_order_counts = IF o.is_buy THEN i.cnt ELSE @,
                     !.asks = IF o.is_buy THEN @ ELSE i.agg,
                     !.ask_order_counts = IF o.is_buy THEN @ ELSE i.cnt]
        IN update_max_quantities(s2)

\* amend_order with the bug of taking new_quantity 0 for a cancellation.
amend_order_ZeroCancels(b, order_id, new_price, new_quantity) ==
    IF order_id \notin DOMAIN b.orders THEN WithOk(b, FALSE)
    ELSE IF new_quantity = 0 THEN CancelKnown(b, order_id)
    ELSE AmendKnown(b, order_id, new_price, new_quantity)

\* amend_order(order_id, new_price, new_quantity) on the book record b: the book
\* record after the call, with ok (the bool returned).
amend_order(b, order_id, new_price, new_quantity) ==
    IF order_id \notin DOMAIN b.orders THEN WithOk(b, FALSE)
    ELSE AmendKnown(b, order_id, new_price, new_quantity)

\* ----------------------------------------------------------------- queries
\* What get_best_bid() returns when data.bids is b: 0.0 when it is empty.
BestBid(b) == IF DOMAIN b = {} THEN 0 ELSE BestBidKey(b)

\* What get_best_ask() returns when data.asks is a: 0.0 when it is empty.
BestAsk(a) == IF DOMAIN a = {} THEN 0 ELSE BestAskKey(a)

\* get_best_bid().
get_best_bid == BestBid(bids)

\* get_best_ask().
get_best_ask == BestAsk(asks)

\* order_exists(order_id).
order_exists(order_id) == order_id \in DOMAIN orders

\* The keys the loops of get_snapshot visit in the map m: the first depth keys
\* from m.begin().
FirstKeys(m, depth) ==
    {p \in DOMAIN m : Cardinality({q \in DOMAIN m : q < p}) < depth}

\* One loop of get_snapshot: the levels {price, quantity, order_count} pushed
\* for the first depth keys of the ladder agg, in iteration order.
SnapshotSide(agg, cnt, depth) ==
    [k \in 1..Cardinality(FirstKeys(agg, depth)) |->
        LET p == CHOOSE p \in DOMAIN agg : Cardinality({q \in DOMAIN agg : q < p}) = k - 1
        IN [price |-> p, quantity |-> agg[p], order_count |-> cnt[p]]]

\* get_snapshot(depth, bids_out, asks_out): thrown is whether a count lookup
\* .at(it->first) threw std::out_of_range; the vectors are those of a call
\* that did not throw.
get_snapshot(depth) ==
    IF \/ \E p \in FirstKeys(bids, depth) : p \notin DOMAIN bid_order_counts
       \/ \E p \in FirstKeys(asks, depth) : p \notin DOMAIN ask_order_counts
    THEN [thrown |-> TRUE, bids_out |-> <<>>, asks_out |-> <<>>]
    ELSE [thrown |-> FALSE,
          bids_out |-> SnapshotSide(bids, bid_order_counts, depth),
          asks_out |-> SnapshotSide(asks, ask_order_counts, depth)]

\* ------------------------------------------------------- the state machine
\* The orders in which an unordered_map holding the ids S can be iterated.
ScanOrders(S) ==
    {f \in [1..Cardinality(S) -> S] : \A i, j \in 1..Cardinality(S) : f[i] = f[j] => i = j}

\* OrderBook::OrderBook(): an empty book; no call has been made.
Init ==
    /\ orders = EmptyMap
    /\ bids = EmptyMap
    /\ asks = EmptyMap
    /\ bid_order_counts = EmptyMap
    /\ ask_order_counts = EmptyMap
    /\ max_bid_quantity = 0
    /\ max_ask_quantity = 0
    /\ call = [op |-> "none", returned |-> TRUE]
    /\ trades = <<>>
    /\ result = FALSE
    /\ pre = [orders |-> EmptyMap, bids |-> EmptyMap, asks |-> EmptyMap,
              bid_order_counts |-> EmptyMap, ask_order_counts |-> EmptyMap,
              max_bid_quantity |-> 0, max_ask_quantity |-> 0]
    /\ added = {}
    /\ nOps = 0

\* The book variables take the values of the record r.
SetBook(r) ==
    /\ orders' = r.orders
    /\ bids' = r.bids
    /\ asks' = r.asks
    /\ bid_order_counts' = r.bid_order_counts
    /\ ask_order_counts' = r.ask_order_counts
    /\ max_bid_quantity' = r.max_bid_quantity
    /\ max_ask_quantity' = r.max_ask_quantity

\* A caller can make a call: the previous one returned, and the run is not over.
CanCall == call.returned /\ nOps < MaxOps

\* What every call does to the record of the calls made.
Record ==
    /\ pre' = Book
    /\ added' = IF call.op = "add" THEN added \cup {call.order.order_id}
                 ELSE IF call.op = "cancel" THEN {}
                 ELSE added
    /\ nOps' = nOps + 1

\* OrderBook::add_order(order).
AddOrder ==
    /\ CanCall
    /\ \E order \in Order, scan \in ScanOrders(DOMAIN orders) :
         LET r == add_order(Book, order, scan)
         IN /\ SetBook(r)
            /\ call' = [op |-> "add", order |-> order, returned |-> ~r.hung,
                        progressed |-> ~r.stalled]
            /\ trades' = r.trades
    /\ Record
    /\ UNCHANGED result

\* OrderBook::cancel_order(order_id).
CancelOrder ==
    /\ CanCall
    /\ \E order_id \in Ids :
         LET r == cancel_order(Book, order_id)
         IN /\ SetBook(r)
            /\ call' = [op |-> "cancel", order_id |-> order_id, returned |-> TRUE]
            /\ result' = r.ok
    /\ Record
    /\ UNCHANGED trades

\* OrderBook::amend_order(order_id, new_price, new_quantity).
AmendOrder ==
    /\ CanCall
    /\ \E order_id \in Ids, new_price \in Prices, new_quantity \in Qtys :
         LET r == amend_order(Book, order_id, new_price, new_quantity)
         IN /\ SetBook(r)
            /\ call' = [op |-> "amend", order_id |-> order_id, new_price |-> new_price,
                        new_quantity |-> new_quantity, returned |-> TRUE]
            /\ result' = r.ok
    /\ Record
    /\ UNCHANGED trades

Next == AddOrder \/ CancelOrder \/ AmendOrder

Spec == Init /\ [][Next]_vars

\* ------------------------------------------------------------------ claims
\* What the claims speak of: sums and counts over the registry.
RECURSIVE SumQuantity(_, _)
SumQuantity(os, S) ==
    IF S = {} THEN 0
    ELSE LET i == CHOOSE i \in S : TRUE
         IN os[i].quantity + SumQuantity(os, S \ {i})

\* The ids of the registry os with the given side and price.
Resting(os, is_buy, p) == {i \in DOMAIN os : os[i].is_buy = is_buy /\ os[i].price = p}

\* The ids of the registry os with the given side.
OnSide(os, is_buy) == {i \in DOMAIN os : os[i].is_buy = is_buy}

Sides == BOOLEAN
Ladder(is_buy) == IF is_buy THEN bids ELSE asks
Counts(is_buy) == IF is_buy THEN bid_order_counts ELSE ask_order_counts

\* C1: after every public call, for each side and each price the ladder's
\* aggregate quantity (0 for a missing level) is the sum of the quantities of
\* the registry's orders with that side and price.
C1_AggregateIsSum ==
    \A s \in Sides, p \in Prices :
        Get(Ladder(s), p) = SumQuantity(orders, Resting(orders, s, p))

\* C1 witness: an add_order traded and left, at the price it traded at, a level
\* that two registry orders still stand behind.
C1_Witness ==
    /\ call.op = "add"
    /\ trades # <<>>
    /\ LET s == ~call.order.is_buy
           p == trades[1].price
       IN /\ p \in DOMAIN Ladder(s)
          /\ Cardinality(Resting(orders, s, p)) = 2
          /\ Ladder(s)[p] = 3

\* C2: after every public call, for each side and each price that has a level,
\* the level's order count is the number of registry orders with that side and
\* price.
C2_CountIsNumber ==
    \A s \in Sides : \A p \in DOMAIN Ladder(s) :
        Get(Counts(s), p) = Cardinality(Resting(orders, s, p))

\* C3: after every public call, a price is a key of a ladder if and only if
\* its aggregate quantity is strictly positive: no level has aggregate zero,
\* and every price at which the registry holds quantity has a level.
C3_LevelIffPositive ==
    \A s \in Sides, p \in Prices :
        /\ p \in DOMAIN Ladder(s) => Ladder(s)[p] > 0
        /\ SumQuantity(orders, Resting(orders, s, p)) > 0 => p \in DOMAIN Ladder(s)

\* C4: after any add_order call returns, one side's ladder is empty or
\* best bid < best ask.
C4_NeverCrossed ==
    (call.op = "add" /\ call.returned) =>
        \/ DOMAIN bids = {}
        \/ DOMAIN asks = {}
        \/ BestBidKey(bids) < BestAskKey(asks)

\* The latest call was add_order(o) with o.order_id not in the registry.
FreshAdd == call.op = "add" /\ call.returned /\ call.order.order_id \notin DOMAIN pre.orders

\* The book after cancel_order of the id of the latest add_order, made next.
AfterCancel == cancel_order(Book, call.order.order_id)

\* The ladders l without the level (and count) at the side and price of order o
\* when that level's aggregate is zero.
WithoutZeroLevel(l, o) ==
    IF o.is_buy /\ o.price \in DOMAIN l.bids /\ l.bids[o.price] = 0
    THEN [l EXCEPT !.bids = Erase(@, o.price), !.bid_order_counts = Erase(@, o.price)]
    ELSE IF ~o.is_buy /\ o.price \in DOMAIN l.asks /\ l.asks[o.price] = 0
    THEN [l EXCEPT !.asks = Erase(@, o.price), !.ask_order_counts = Erase(@, o.price)]
    ELSE l

\* C5 as claimed: add_order of a LIMIT order with an id not in the registry,
\* followed at once by cancel_order of that id, leaves every ladder aggregate
\* and every order count on both sides at its value before the add_order
\* (a missing level or count read as 0).
C5_RoundTripAlways ==
    (FreshAdd /\ call.order.order_type = "LIMIT") =>
        \A p \in Prices :
            /\ Get(AfterCancel.bids, p) = Get(pre.bids, p)
            /\ Get(AfterCancel.asks, p) = Get(pre.asks, p)
            /\ Get(AfterCancel.bid_order_counts, p) = Get(pre.bid_order_counts, p)
            /\ Get(AfterCancel.ask_order_counts, p) = Get(pre.ask_order_counts, p)

\* C5 as amended: when that add_order returns no trades, the cancel_order made
\* next leaves both ladders and both count maps as they were before the
\* add_order, level for level, but for one level: if the order came to rest at
\* a price whose level on its side had aggregate zero, the level is gone.
C5_RoundTripNoTrades ==
    (FreshAdd /\ call.order.order_type = "LIMIT" /\ trades = <<>>) =>
        Ladders(AfterCancel) =
            IF call.order.order_id \in DOMAIN orders
            THEN WithoutZeroLevel(Ladders(pre), call.order)
            ELSE Ladders(pre)

\* C5 witness: a LIMIT order with a new id came to rest, without a trade, at a
\* level that held another order and opposite a non-empty ladder, and the
\* cancel_order made next removes it.
C5_Witness ==
    /\ FreshAdd /\ call.order.order_type = "LIMIT" /\ trades = <<>>
    /\ call.order.order_id \in DOMAIN orders
    /\ Get(Ladder(call.order.is_buy), call.order.price) > call.order.quantity
    /\ DOMAIN Ladder(~call.order.is_buy) # {}
    /\ AfterCancel.ok
    /\ Ladders(AfterCancel) = Ladders(pre)

\* C6: add_order with an order_id that is in the registry returns no trades and
\* leaves the registry, both ladders and both count maps unchanged, whatever
\* the side, type, price and quantity submitted.
C6_DuplicateIsNoOp ==
    (call.op = "add" /\ call.order.order_id \in DOMAIN pre.orders) =>
        /\ call.returned
        /\ trades = <<>>
        /\ Book = pre

\* C6 witness: a MARKET order was submitted under an id in the registry while
\* the opposite side held quantity it would otherwise have traded with.
C6_Witness ==
    /\ call.op = "add" /\ call.order.order_id \in DOMAIN pre.orders
    /\ call.order.order_type = "MARKET" /\ call.order.quantity > 0
    /\ SumQuantity(pre.orders, OnSide(pre.orders, ~call.order.is_buy)) > 0
    /\ pre.orders[call.order.order_id].is_buy = call.order.is_buy

\* C7 as claimed: an add_order with an id that an earlier add_order was called
\* with, no cancel_order having been made in between, returns no trades and
\* leaves the book unmodified, whatever the first order was.
C7_SecondAddAlwaysNoOp ==
    (call.op = "add" /\ call.order.order_id \in added) =>
        /\ trades = <<>>
        /\ Book = pre

\* C7 as amended: such a second add_order returns no trades and leaves the book
\* unmodified when the order of the first call is in the registry at the
\* second call.
C7_SecondAddNoOpWhileResting ==
    (call.op = "add" /\ call.order.order_id \in added
        /\ call.order.order_id \in DOMAIN pre.orders) =>
        /\ trades = <<>>
        /\ Book = pre

\* C7 witness: the second add_order came with other terms than the order that
\* rests under its id, at a price the book has no level for.
C7_Witness ==
    /\ call.op = "add" /\ call.order.order_id \in added
    /\ call.order.order_id \in DOMAIN pre.orders
    /\ call.order.order_type = "LIMIT" /\ call.order.quantity > 0
    /\ call.order.price # pre.orders[call.order.order_id].price
    /\ call.order.price \notin DOMAIN pre.bids \cup DOMAIN pre.asks

\* C8: cancel_order and amend_order with an order_id that is not in the
\* registry return false and leave the registry, both ladders and both count
\* maps unchanged.
C8_UnknownIdIsNoOp ==
    (call.op \in {"cancel", "amend"} /\ call.order_id \notin DOMAIN pre.orders) =>
        /\ result = FALSE
        /\ Book = pre

\* C8 witness: amend_order was called with an unknown id on a book that holds
\* orders on both sides.
C8_Witness ==
    /\ call.op = "amend" /\ call.order_id \notin DOMAIN pre.orders
    /\ call.new_quantity > 0
    /\ DOMAIN pre.bids # {} /\ DOMAIN pre.asks # {}

\* The latest call was add_order of a MARKET order whose quantity exceeds the
\* total quantity the registry held on the opposite side.
MarketExceeds ==
    /\ call.op = "add" /\ call.order.order_type = "MARKET"
    /\ call.order.quantity >
         SumQuantity(pre.orders, OnSide(pre.orders, ~call.order.is_buy))

\* After the latest add_order the opposite ladder is empty, the ladder and the
\* counts of the order's own side are as before, and its id is not in the registry.
Drained ==
    /\ call.returned
    /\ DOMAIN Ladder(~call.order.is_buy) = {}
    /\ Ladder(call.order.is_buy) = (IF call.order.is_buy THEN pre.bids ELSE pre.asks)
    /\ Counts(call.order.is_buy) =
         (IF call.order.is_buy THEN pre.bid_order_counts ELSE pre.ask_order_counts)
    /\ call.order.order_id \notin DOMAIN orders

\* No MARKET order is in the registry.
NoMarketRests == \A i \in DOMAIN orders : orders[i].order_type # "MARKET"

\* C9 as claimed: after add_order of a MARKET order whose quantity exceeds the
\* total resting quantity of the opposite side, the opposite ladder is empty,
\* the same-side ladder is unchanged and the id is not in the registry; and no
\* MARKET order is ever in the registry.
C9_MarketDrainsAlways == (MarketExceeds => Drained) /\ NoMarketRests

\* C9 as amended: the same, for a MARKET order whose id is not in the registry
\* when add_order is called.
C9_MarketDrainsFresh == ((MarketExceeds /\ FreshAdd) => Drained) /\ NoMarketRests

\* C9 witness: a MARKET order with a new id took all the opposite side held and
\* was not filled, while its own side held an order.
C9_Witness ==
    /\ MarketExceeds /\ FreshAdd
    /\ Len(trades) = 1 /\ trades[1].quantity > 0
    /\ trades[1].quantity < call.order.quantity
    /\ DOMAIN Ladder(call.order.is_buy) # {}

\* The sum of the quantities of the first n trades of ts.
RECURSIVE TradedBefore(_, _)
TradedBefore(ts, n) == IF n = 0 THEN 0 ELSE ts[n].quantity + TradedBefore(ts, n - 1)

\* The id of the resting order of a trade of the latest add_order.
Passive(t) == IF call.order.is_buy THEN t.sell_order_id ELSE t.buy_order_id

\* The id of the incoming order as a trade of the latest add_order carries it.
Aggressor(t) == IF call.order.is_buy THEN t.buy_order_id ELSE t.sell_order_id

\* C10: every trade add_order returns pairs the incoming order with an order of
\* the opposite side that was in the registry, carries the buyer's id as
\* buy_order_id and the seller's as sell_order_id, has the resting order's
\* price, and has as quantity the minimum of what is left of the incoming order
\* and of the resting order when they are matched.
C10_TradeFields ==
    call.op = "add" =>
        \A n \in 1..Len(trades) :
            LET t == trades[n]
            IN /\ Aggressor(t) = call.order.order_id
               /\ Passive(t) \in DOMAIN pre.orders
               /\ pre.orders[Passive(t)].is_buy # call.order.is_buy
               /\ t.price = pre.orders[Passive(t)].price
               /\ t.quantity =
                    UMin(call.order.quantity - TradedBefore(trades, n - 1),
                         pre.orders[Passive(t)].quantity)
               /\ \A m \in 1..Len(trades) : Passive(trades[m]) = Passive(t) => m = n

\* C10 witness: a LIMIT order traded twice, the second time for less than the
\* resting order held, at a price that is not its own limit price.
C10_Witness ==
    /\ call.op = "add" /\ call.order.order_type = "LIMIT"
    /\ Len(trades) = 2
    /\ trades[2].price # call.order.price
    /\ trades[2].quantity < pre.orders[Passive(trades[2])].quantity
    /\ trades[2].quantity > 0

\* The book record b is crossed: both ladders have levels and best bid >= best ask.
Crossed(b) ==
    /\ DOMAIN b.bids # {} /\ DOMAIN b.asks # {}
    /\ BestBidKey(b.bids) >= BestAskKey(b.asks)

\* C11: every trade of an add_order of a LIMIT buy has price <= the order's
\* limit price, and every trade of a LIMIT sell has price >= it.
C11_TradeWithinLimit ==
    (call.op = "add" /\ call.order.order_type = "LIMIT") =>
        \A n \in 1..Len(trades) :
            IF call.order.is_buy
            THEN trades[n].price <= call.order.price
            ELSE trades[n].price >= call.order.price

\* C11 witness: on a book that amend_order left crossed, a LIMIT order traded
\* at a price better than its limit.
C11_Witness ==
    /\ call.op = "add" /\ call.order.order_type = "LIMIT"
    /\ Crossed(pre)
    /\ trades # <<>>
    /\ trades[1].price # call.order.price
    /\ trades[1].quantity > 0

\* The ladder and the count map of one side of a book record.
SideOf(b, is_buy) ==
    IF is_buy THEN [agg |-> b.bids, cnt |-> b.bid_order_counts]
    ELSE [agg |-> b.asks, cnt |-> b.ask_order_counts]

\* C12: amend_order on an id in the registry returns true, makes no trade (no
\* other order's quantity moves), keeps the order in the registry with its id
\* and side and with price = new_price and quantity = new_quantity, and leaves
\* the opposite ladder and every other registry order unchanged, also when the
\* new price crosses the opposite best price.
C12_AmendInPlace ==
    (call.op = "amend" /\ call.order_id \in DOMAIN pre.orders) =>
        LET o == pre.orders[call.order_id]
        IN /\ result = TRUE
           /\ DOMAIN orders = DOMAIN pre.orders
           /\ orders[call.order_id] =
                [o EXCEPT !.price = call.new_price, !.quantity = call.new_quantity]
           /\ \A i \in DOMAIN pre.orders : i # call.order_id => orders[i] = pre.orders[i]
           /\ SideOf(Book, ~o.is_buy) = SideOf(pre, ~o.is_buy)

\* C12 witness: amend_order moved an order to a price that crosses the opposite
\* best price, where an order of positive quantity rests.
C12_Witness ==
    /\ call.op = "amend" /\ call.order_id \in DOMAIN pre.orders
    /\ call.new_quantity > 0
    /\ call.new_price # pre.orders[call.order_id].price
    /\ ~Crossed(pre) /\ Crossed(Book)
    /\ \E i \in DOMAIN orders :
         /\ orders[i].is_buy # orders[call.order_id].is_buy
         /\ orders[i].quantity > 0

\* C12 second witness: amend_order set a resting order's quantity to 0.
C12_WitnessZero ==
    /\ call.op = "amend" /\ call.order_id \in DOMAIN pre.orders
    /\ call.new_quantity = 0
    /\ pre.orders[call.order_id].quantity > 0

\* C13: cancel_order on an id in the registry returns true, removes that order
\* and no other from the registry, lowers the same-side aggregate at the
\* order's price by the order's whole quantity, the level and its count being
\* removed together when the aggregate reaches zero, and leaves every other
\* level, the opposite ladder and every other registry order unchanged.
C13_CancelReleases ==
    (call.op = "cancel" /\ call.order_id \in DOMAIN pre.orders) =>
        LET o == pre.orders[call.order_id]
            was == SideOf(pre, o.is_buy)
            now == SideOf(Book, o.is_buy)
        IN /\ result = TRUE
           /\ orders = Erase(pre.orders, call.order_id)
           /\ SideOf(Book, ~o.is_buy) = SideOf(pre, ~o.is_buy)
           /\ Get(now.agg, o.price) = Get(was.agg, o.price) - o.quantity
           /\ IF Get(now.agg, o.price) = 0
              THEN o.price \notin DOMAIN now.agg /\ o.price \notin DOMAIN now.cnt
              ELSE o.price \in DOMAIN now.agg /\ o.price \in DOMAIN now.cnt
           /\ Erase(now.agg, o.price) = Erase(was.agg, o.price)
           /\ Erase(now.cnt, o.price) = Erase(was.cnt, o.price)

\* C13 witness: cancel_order took one of two orders of positive quantity from a
\* level, on a book with an opposite level.
C13_Witness ==
    /\ call.op = "cancel" /\ call.order_id \in DOMAIN pre.orders
    /\ LET o == pre.orders[call.order_id]
       IN /\ o.quantity > 0
          /\ Get(Ladder(o.is_buy), o.price) > 0
          /\ DOMAIN Ladder(~o.is_buy) # {}

\* C13 second witness: cancel_order took the only order of a level, and the
\* side keeps another level.
C13_WitnessLevelGone ==
    /\ call.op = "cancel" /\ call.order_id \in DOMAIN pre.orders
    /\ LET o == pre.orders[call.order_id]
       IN /\ o.quantity > 0
          /\ o.price \notin DOMAIN Ladder(o.is_buy)
          /\ DOMAIN Ladder(o.is_buy) # {}

\* C14: what get_best_bid / get_best_ask return for an empty ladder differs
\* from what they return for a ladder that is not empty, one whose best price
\* is zero included: with the book as built (both ladders empty) reachable, the
\* query on a ladder with a level never returns the empty ladder's value.
C14_EmptyDistinguishable ==
    /\ DOMAIN bids # {} => get_best_bid # BestBid(EmptyMap)
    /\ DOMAIN asks # {} => get_best_ask # BestAsk(EmptyMap)

\* An order o can trade at the resting price p: any price for a MARKET order,
\* asks <= limit for a LIMIT buy, bids >= limit for a LIMIT sell.
CanTradeAt(o, p) ==
    \/ o.order_type = "MARKET"
    \/ o.is_buy /\ p <= o.price
    \/ ~o.is_buy /\ p >= o.price

\* The quantity the registry held, before the latest add_order, on the side
\* opposite the order at prices the order can trade at.
Available ==
    SumQuantity(pre.orders,
                {i \in OnSide(pre.orders, ~call.order.is_buy) :
                    CanTradeAt(call.order, pre.orders[i].price)})

\* The total quantity of the trades of the latest add_order.
Traded == TradedBefore(trades, Len(trades))

\* The latest add_order traded min(order quantity, available quantity), and a
\* LIMIT order rests, with the remainder, exactly when the remainder is > 0:
\* the registry holds it with that quantity and its level grew by it.
FilledAndRested ==
    LET o == call.order
        left == o.quantity - Traded
    IN /\ Traded = (IF o.quantity <= Available THEN o.quantity ELSE Available)
       /\ o.order_id \in DOMAIN orders <=> (o.order_type = "LIMIT" /\ left > 0)
       /\ o.order_id \in DOMAIN orders =>
            /\ orders[o.order_id] = [o EXCEPT !.quantity = left]
            /\ Get(Ladder(o.is_buy), o.price) =
                 Get(SideOf(pre, o.is_buy).agg, o.price) + left

\* C15 as claimed: in any reachable state, one add_order call trades in total
\* min(order quantity, resting quantity of the opposite side at crossable
\* prices), and a LIMIT order rests with exactly the remainder and only if the
\* remainder is > 0.
C15_FillAmountAlways == call.op = "add" => FilledAndRested

\* C15 as amended: the same, for an add_order whose order_id is not in the
\* registry when it is called.
C15_FillAmountFresh == FreshAdd => FilledAndRested

\* C15 witness: a LIMIT order with a new id traded part of its quantity, came
\* to rest with the remainder, and left opposite quantity at a price it cannot
\* trade at.
C15_Witness ==
    /\ FreshAdd /\ call.order.order_type = "LIMIT"
    /\ Traded > 0
    /\ call.order.order_id \in DOMAIN orders
    /\ DOMAIN Ladder(~call.order.is_buy) # {}
    /\ Available < SumQuantity(pre.orders, OnSide(pre.orders, ~call.order.is_buy))

\* Price p is strictly better than price q for the incoming order of the latest
\* add_order: a lower ask for a buy, a higher bid for a sell.
Better(p, q) == IF call.order.is_buy THEN p < q ELSE p > q

\* The quantity the first n trades of ts took from the resting order i.
RECURSIVE FilledBefore(_, _, _)
FilledBefore(ts, n, i) ==
    IF n = 0 THEN 0
    ELSE (IF Passive(ts[n]) = i THEN ts[n].quantity ELSE 0) + FilledBefore(ts, n - 1, i)

\* C16: the trades of one add_order come in price priority: no trade has a
\* better price than the trade before it (prices do not fall for a buy, do not
\* rise for a sell), and when a trade is made every order that rested on the
\* opposite side at a strictly better price has been filled completely by the
\* trades before it.
C16_PricePriority ==
    call.op = "add" =>
        \A n \in 1..Len(trades) :
            /\ n > 1 => ~Better(trades[n].price, trades[n - 1].price)
            /\ \A i \in OnSide(pre.orders, ~call.order.is_buy) :
                 Better(pre.orders[i].price, trades[n].price) =>
                     FilledBefore(trades, n - 1, i) = pre.orders[i].quantity

\* C16 witness: an add_order traded at two prices, taking the whole of the
\* order at the better price first.
C16_Witness ==
    /\ call.op = "add" /\ Len(trades) = 2
    /\ Better(trades[1].price, trades[2].price)
    /\ trades[1].quantity > 0 /\ trades[2].quantity > 0
    /\ pre.orders[Passive(trades[1])].quantity = trades[1].quantity

\* C17: add_order terminates from every reachable state: the call returned,
\* and every call of match_orders inside its while loop either made the
\* incoming order's remaining quantity smaller or removed the opposite
\* ladder's best level.
C17_AddTerminates ==
    call.op = "add" => call.returned /\ call.progressed

\* C17 witness: an add_order returned after its while loop went through two
\* levels and left the opposite ladder empty.
C17_Witness ==
    /\ call.op = "add" /\ call.returned /\ call.progressed
    /\ Len(trades) >= 2 /\ trades[1].price # trades[2].price
    /\ DOMAIN SideOf(pre, ~call.order.is_buy).agg # {}
    /\ DOMAIN Ladder(~call.order.is_buy) = {}

\* An add_order returned after a call of match_orders that removed a level of
\* aggregate 0 and left the incoming order's quantity as it was.
C17_WitnessZeroLevel ==
    /\ call.op = "add" /\ call.returned /\ call.progressed
    /\ \E n \in 1..Len(trades) : trades[n].quantity = 0

\* C18: every trade add_order returns has a quantity > 0.
C18_TradesPositive ==
    call.op = "add" => \A n \in 1..Len(trades) : ULt(0, trades[n].quantity)

\* The quantity the trades ts carry at each price.
RECURSIVE TradedAt(_, _)
TradedAt(ts, p) ==
    IF ts = <<>> THEN 0
    ELSE (IF Head(ts).price = p THEN Head(ts).quantity ELSE 0) + TradedAt(Tail(ts), p)

\* What a caller sees of an add_order that ended in the record r: the ladders
\* and counts, the traded quantity per price, what is left of the incoming
\* order, and whether the call returned.
Outcome(r) ==
    [ladders |-> Ladders(r), traded |-> [p \in Prices |-> TradedAt(r.trades, p)],
     residual |-> r.quantity, returned |-> ~r.hung]

\* The outcomes of the latest add_order under every order in which the
\* registry it found can be iterated.
Outcomes ==
    {Outcome(add_order(pre, call.order, scan)) : scan \in ScanOrders(DOMAIN pre.orders)}

\* C19: the outcome of add_order does not depend on the order in which the
\* registry is scanned: every scan order gives the same ladder aggregates and
\* counts, the same traded quantity per price and the same residual of the
\* incoming order, and that outcome is the one the call had.
C19_ScanOrderIndependent ==
    call.op = "add" =>
        /\ Cardinality(Outcomes) = 1
        /\ \A o \in Outcomes :
             /\ o.ladders = Ladders(Book)
             /\ o.traded = [p \in Prices |-> TradedAt(trades, p)]
             /\ o.returned = call.returned

\* C19 witness: an add_order traded, and two scan orders of the registry it
\* found fill different resting orders of one price.
C19_Witness ==
    /\ call.op = "add" /\ trades # <<>>
    /\ \E s1, s2 \in ScanOrders(DOMAIN pre.orders) :
         LET r1 == add_order(pre, call.order, s1)
             r2 == add_order(pre, call.order, s2)
         IN /\ r1.orders # r2.orders
            /\ r1.trades[1].price = r2.trades[1].price
            /\ Passive(r1.trades[1]) # Passive(r2.trades[1])

\* The depths get_snapshot is asked for: from none to every level there can be.
Depths == 0..(MaxPrice + 1)

\* C20: after every public operation each side's aggregate map and count map
\* have the same price keys, so that get_snapshot's count lookup succeeds for
\* every level it visits, with as many levels out as it visited.
C20_SameKeys ==
    /\ DOMAIN bids = DOMAIN bid_order_counts
    /\ DOMAIN asks = DOMAIN ask_order_counts
    /\ \A depth \in Depths :
         LET snap == get_snapshot(depth)
         IN /\ ~snap.thrown
            /\ Len(snap.bids_out) = Cardinality(FirstKeys(bids, depth))
            /\ Len(snap.asks_out) = Cardinality(FirstKeys(asks, depth))

\* C20 witness: an add_order took the whole of one level of the opposite
\* side, which is gone with its count, and left another level of that side.
C20_Witness ==
    /\ call.op = "add" /\ trades # <<>>
    /\ LET before == SideOf(pre, ~call.order.is_buy)
           after == SideOf(Book, ~call.order.is_buy)
       IN /\ trades[1].price \in DOMAIN before.agg
          /\ trades[1].price \in DOMAIN before.cnt
          /\ trades[1].price \notin DOMAIN after.agg
          /\ trades[1].price \notin DOMAIN after.cnt
          /\ DOMAIN after.agg # {}
          /\ Len(get_snapshot(1).bids_out) + Len(get_snapshot(1).asks_out) >= 1

====
